---- MODULE Spec2Model ----
(***************************************************************************)
(* Model of the three dashboard back ends of agro_dashbord:                *)
(*   simple_server.py      in-memory catalog (Flask + dataclasses)         *)
(*   app.py                fixture-backed Flask variant                    *)
(*   standalone_server.py  http.server variant (DashboardHandler)          *)
(* One action per request handler.  `req' and `resp' hold the request last *)
(* served and the response the handler produced for it.                    *)
(***************************************************************************)
EXTENDS Integers, Sequences, FiniteSets, TLC

VARIABLES variant,    \* which of the three servers this process runs
          products,   \* simple_server.py: module global `products'
          orders,     \* simple_server.py: module global `orders'
          fixtures,   \* the JSON files under api/admin/api/ (app.py, standalone)
          req,        \* the request last served
          resp        \* the response to it

vars == <<variant, products, orders, fixtures, req, resp>>

(***************************************************************************)
(* Bounds                                                                  *)
(***************************************************************************)
\* create_order is enabled while the order collection is shorter than this
MaxOrders == 6
\* product ids a DELETE request may carry are 0..MaxProductId
MaxProductId == 9

(***************************************************************************)
(* JSON values a caller can put in a field that the code later computes on *)
(***************************************************************************)
Num(n) == [t |-> "num", n |-> n]
Str(s) == [t |-> "str", s |-> s]

(***************************************************************************)
(* simple_server.py : data                                                 *)
(***************************************************************************)
Product(id, product_id, category_id, quantity_per_pack, price, status) ==
    [id |-> id, product_id |-> product_id, category_id |-> category_id,
     quantity_per_pack |-> quantity_per_pack, price |-> price, status |-> status]

Order(id, order_id, customer_id, customer_name, phone, address, total_price, order_status, order_date, items) ==
    [id |-> id, order_id |-> order_id, customer_id |-> customer_id,
     customer_name |-> customer_name, phone |-> phone, address |-> address,
     total_price |-> total_price, order_status |-> order_status,
     order_date |-> order_date, items |-> items]

generate_sample_products ==
    << Product(1, "PRD001", "electronics", 1, 45000, "active"),
       Product(2, "PRD002", "electronics", 1, 25000, "active"),
       Product(3, "PRD003", "clothing",    1, 1500,  "active"),
       Product(4, "PRD004", "clothing",    1, 3500,  "active"),
       Product(5, "PRD005", "food",        1, 800,   "active"),
       Product(6, "PRD006", "food",        1, 500,   "active"),
       Product(7, "PRD007", "books",       1, 1200,  "active"),
       Product(8, "PRD008", "books",       1, 3500,  "active") >>

generate_sample_orders ==
    << Order(1, "ORD001", "CUST001", "Ahmed", "0551234567", "Alger",
             Num(45000), "pending", "2024-01-15", "laptop x1"),
       Order(2, "ORD002", "CUST002", "Fatima", "0559876543", "Oran",
             Num(25000), "processing", "2024-01-14", "phone x1"),
       Order(3, "ORD003", "CUST003", "Mohamed", "0554567890", "Constantine",
             Num(5000), "shipped", "2024-01-13", "shirt x2, jeans x1"),
       Order(4, "ORD004", "CUST004", "Khadija", "0553216549", "Blida",
             Num(1300), "delivered", "2024-01-12", "coffee x1, tea x1") >>

(***************************************************************************)
(* Python helpers                                                          *)
(***************************************************************************)
Digit(d) == CASE d = 0 -> "0" [] d = 1 -> "1" [] d = 2 -> "2" [] d = 3 -> "3"
              [] d = 4 -> "4" [] d = 5 -> "5" [] d = 6 -> "6" [] d = 7 -> "7"
              [] d = 8 -> "8" [] d = 9 -> "9"

RECURSIVE Decimal(_)
\* str(n) for n >= 0
Decimal(n) == IF n < 10 THEN Digit(n) ELSE Decimal(n \div 10) \o Digit(n % 10)

\* f"{n:03d}" : decimal, left-padded with zeros to at least three characters
Fmt03d(n) == IF n < 10 THEN "00" \o Decimal(n)
             ELSE IF n < 100 THEN "0" \o Decimal(n)
             ELSE Decimal(n)

\* data.get(key, default) on a JSON object
DictGet(data, key, default) ==
    IF key \in DOMAIN data.fields THEN data.fields[key] ELSE default

RECURSIVE PySum(_, _)
\* sum(iterable) started at acc: a non-number operand raises TypeError
PySum(vals, acc) ==
    IF vals = <<>> THEN [ok |-> TRUE, v |-> acc]
    ELSE IF Head(vals).t # "num" THEN [ok |-> FALSE, v |-> 0]
    ELSE PySum(Tail(vals), acc + Head(vals).n)

RECURSIVE JoinQuoted(_)
JoinQuoted(xs) ==
    IF xs = <<>> THEN ""
    ELSE IF Len(xs) = 1 THEN "'" \o xs[1] \o "'"
    ELSE "'" \o xs[1] \o "', " \o JoinQuoted(Tail(xs))

\* json.dumps of a list of strings (the quote character is written ')
json_dumps(xs) == "[" \o JoinQuoted(xs) \o "]"

(***************************************************************************)
(* Responses                                                               *)
(***************************************************************************)
ContentJson == <<"Content-type", "application/json">>
ContentHtml == <<"Content-type", "text/html">>
AllowOrigin == <<"Access-Control-Allow-Origin", "*">>
AllowMethods == <<"Access-Control-Allow-Methods", "GET, POST, DELETE, OPTIONS">>
AllowHeaders == <<"Access-Control-Allow-Headers", "Content-Type">>

NoResponse == [status |-> 0, headers |-> {}, body |-> [kind |-> "none"]]

\* jsonify(...) under CORS(app): flask_cors adds the origin header
simple_jsonify(body) ==
    [status |-> 200, headers |-> {ContentJson, AllowOrigin}, body |-> body]

\* an exception escaping a view function: Flask answers 500
simple_error(status) ==
    [status |-> status, headers |-> {ContentHtml, AllowOrigin},
     body |-> [kind |-> "error"]]

StatusBody(message) ==
    [kind |-> "status", status |-> "success", message |-> message]

(***************************************************************************)
(* simple_server.py : handlers                                             *)
(***************************************************************************)
get_products(ps) == simple_jsonify([kind |-> "products", list |-> ps])

get_orders(os) == simple_jsonify([kind |-> "orders", list |-> os])

IsPending(o) == o.order_status = "pending"
NotCancelled(o) == o.order_status # "cancelled"
\* (o.total_price for o in ...)
TotalPrices(os) == [i \in 1..Len(os) |-> os[i].total_price]

\* orders[:5]
RecentOrders(os) == SubSeq(os, 1, IF Len(os) < 5 THEN Len(os) ELSE 5)

get_stats(ps, os) ==
    LET revenue == PySum(TotalPrices(SelectSeq(os, NotCancelled)), 0)
    IN  IF revenue.ok
        THEN simple_jsonify([kind |-> "stats",
                             totalProducts |-> Len(ps),
                             totalOrders |-> Len(os),
                             pendingOrders |-> Len(SelectSeq(os, IsPending)),
                             totalRevenue |-> revenue.v,
                             recentOrders |-> RecentOrders(os)])
        ELSE simple_error(500)

\* variant of RemoveProduct that keeps every product (the stub of app.py)
RemoveProduct_noop(ps, product_id) == ps

\* variant of RemoveProduct that deletes by list position instead of by id
RemoveProduct_by_index(ps, product_id) ==
    IF product_id \in 1..Len(ps)
    THEN SubSeq(ps, 1, product_id - 1) \o SubSeq(ps, product_id + 1, Len(ps))
    ELSE ps

\* [p for p in products if p.id != product_id]
RemoveProduct(ps, product_id) ==
    SelectSeq(ps, LAMBDA p : p.id # product_id)

\* variant of NextOrderId that is off by one: id=len(orders)
NextOrderId_stale(os) == Len(os)

\* id=len(orders) + 1
NextOrderId(os) == Len(os) + 1

NewOrder(os, data, today) ==
    Order(NextOrderId(os),
          "ORD" \o Fmt03d(Len(os) + 1),
          "CUST" \o Fmt03d(Len(os) + 1),
          DictGet(data, "customerName", ""),
          DictGet(data, "customerPhone", ""),
          DictGet(data, "customerAddress", ""),
          DictGet(data, "totalAmount", Num(0)),
          "pending",
          today,
          json_dumps(DictGet(data, "items", <<>>)))

\* variant of AppendOrder that inserts at the front: orders.insert(0, new_order)
AppendOrder_front(os, o) == <<o>> \o os

\* orders.append(new_order)
AppendOrder(os, o) == Append(os, o)

(***************************************************************************)
(* Request bodies of POST /admin/orders                                    *)
(***************************************************************************)
JsonObject(fields) == [isObject |-> TRUE, fields |-> fields]
JsonArray(list) == [isObject |-> FALSE, list |-> list]

Payloads ==
    << JsonObject([customerName |-> "Ali", customerPhone |-> "0550000000",
                   customerAddress |-> "Setif", totalAmount |-> Num(500),
                   items |-> <<"tea x2">>]),
       JsonObject([customerName |-> "Sara"]),
       JsonObject([customerName |-> "Omar", totalAmount |-> Str("abc")]),
       JsonArray(<<>>) >>

\* datetime.datetime.now().strftime('%Y-%m-%d')
Dates == {"2024-01-16"}

Request(op, arg) == [op |-> op, arg |-> arg]
NoRequest == Request("none", 0)

\* @app.route('/admin/api/products')
simple_get_products ==
    /\ variant = "simple"
    /\ req' = Request("get_products", 0)
    /\ resp' = get_products(products)
    /\ UNCHANGED <<variant, products, orders, fixtures>>

\* @app.route('/admin/api/orders')
simple_get_orders ==
    /\ variant = "simple"
    /\ req' = Request("get_orders", 0)
    /\ resp' = get_orders(orders)
    /\ UNCHANGED <<variant, products, orders, fixtures>>

\* @app.route('/admin/api/stats')
simple_get_stats ==
    /\ variant = "simple"
    /\ req' = Request("get_stats", 0)
    /\ resp' = get_stats(products, orders)
    /\ UNCHANGED <<variant, products, orders, fixtures>>

\* variant of simple_delete_product that also drops the orders with that id
simple_delete_product_cascade(product_id) ==
    /\ variant = "simple"
    /\ req' = Request("delete_product", product_id)
    /\ products' = RemoveProduct(products, product_id)
    /\ orders' = SelectSeq(orders, LAMBDA o : o.id # product_id)
    /\ resp' = simple_jsonify(StatusBody("Product deleted"))
    /\ UNCHANGED <<variant, fixtures>>

\* @app.route('/admin/products/<int:product_id>', methods=['DELETE'])
simple_delete_product(product_id) ==
    /\ variant = "simple"
    /\ req' = Request("delete_product", product_id)
    /\ products' = RemoveProduct(products, product_id)
    /\ resp' = simple_jsonify(StatusBody("Product deleted"))
    /\ UNCHANGED <<variant, orders, fixtures>>

\* @app.route('/admin/orders', methods=['POST'])
simple_create_order(data, today) ==
    /\ variant = "simple"
    /\ Len(orders) < MaxOrders
    /\ req' = Request("create_order", data)
    /\ IF data.isObject
       THEN LET new_order == NewOrder(orders, data, today)
            IN  /\ orders' = AppendOrder(orders, new_order)
                /\ resp' = simple_jsonify([kind |-> "created",
                                           status |-> "success",
                                           message |-> "Order created",
                                           order |-> new_order])
       ELSE \* data.get on a value that is no dict raises AttributeError
            /\ orders' = orders
            /\ resp' = simple_error(500)
    /\ UNCHANGED <<variant, products, fixtures>>

\* @app.route('/admin/sync/google-sheets', methods=['POST'])
simple_sync_google_sheets ==
    /\ variant = "simple"
    /\ req' = Request("sync_google_sheets", 0)
    /\ resp' = simple_jsonify(StatusBody("Data synced successfully"))
    /\ UNCHANGED <<variant, products, orders, fixtures>>

SimpleNext ==
    \/ simple_get_products
    \/ simple_get_orders
    \/ simple_get_stats
    \/ \E product_id \in 0..MaxProductId : simple_delete_product(product_id)
    \/ \E i \in 1..Len(Payloads), today \in Dates :
          simple_create_order(Payloads[i], today)
    \/ simple_sync_google_sheets

(***************************************************************************)
(* The fixture files api/admin/api/stats.json and products.json            *)
(***************************************************************************)
Missing == [exists |-> FALSE, valid |-> FALSE, json |-> JsonArray(<<>>)]
Malformed == [exists |-> TRUE, valid |-> FALSE, json |-> JsonArray(<<>>)]
File(json) == [exists |-> TRUE, valid |-> TRUE, json |-> json]

ProductsFiles ==
    << Missing,
       Malformed,
       File(JsonArray(generate_sample_products)),
       File(JsonArray(SubSeq(generate_sample_products, 1, 3))) >>

StatsFiles ==
    << Missing,
       Malformed,
       File(JsonObject([totalProducts |-> 8, totalOrders |-> 4,
                        pendingOrders |-> 1, totalRevenue |-> 76300,
                        recentOrders |-> generate_sample_orders])),
       File(JsonObject([totalProducts |-> 8, totalOrders |-> 4,
                        pendingOrders |-> 1, totalRevenue |-> 76300])) >>

NoFixtures == [stats |-> Missing, products |-> Missing]

(***************************************************************************)
(* app.py                                                                  *)
(***************************************************************************)
app_jsonify(body) == [status |-> 200, headers |-> {ContentJson}, body |-> body]

app_error(status) ==
    [status |-> status, headers |-> {ContentHtml}, body |-> [kind |-> "error"]]

\* load_mock_data: FileNotFoundError gives [], a JSON error escapes
load_mock_data(fx, filename) ==
    IF ~fx[filename].exists THEN [ok |-> TRUE, json |-> JsonArray(<<>>)]
    ELSE IF ~fx[filename].valid THEN [ok |-> FALSE, json |-> JsonArray(<<>>)]
    ELSE [ok |-> TRUE, json |-> fx[filename].json]

app_load_response(fx, filename) ==
    LET data == load_mock_data(fx, filename)
    IN  IF data.ok THEN app_jsonify([kind |-> "json", json |-> data.json])
        ELSE app_error(500)

app_get_stats ==
    /\ variant = "app"
    /\ req' = Request("get_stats", 0)
    /\ resp' = app_load_response(fixtures, "stats")
    /\ UNCHANGED <<variant, products, orders, fixtures>>

app_get_products ==
    /\ variant = "app"
    /\ req' = Request("get_products", 0)
    /\ resp' = app_load_response(fixtures, "products")
    /\ UNCHANGED <<variant, products, orders, fixtures>>

\* load_mock_data('stats').get('recentOrders', [])
app_get_orders ==
    /\ variant = "app"
    /\ req' = Request("get_orders", 0)
    /\ resp' = LET data == load_mock_data(fixtures, "stats")
               IN  IF data.ok /\ data.json.isObject
                   THEN app_jsonify([kind |-> "orders",
                            list |-> DictGet(data.json, "recentOrders", <<>>)])
                   ELSE app_error(500)
    /\ UNCHANGED <<variant, products, orders, fixtures>>

app_create_order(data) ==
    /\ variant = "app"
    /\ req' = Request("create_order", data)
    /\ resp' = app_jsonify([kind |-> "created", status |-> "success",
                            message |-> "Order created", order |-> data])
    /\ UNCHANGED <<variant, products, orders, fixtures>>

app_delete_product(product_id) ==
    /\ variant = "app"
    /\ req' = Request("delete_product", product_id)
    /\ resp' = app_jsonify(StatusBody("Product deleted"))
    /\ UNCHANGED <<variant, products, orders, fixtures>>

app_sync_google_sheets ==
    /\ variant = "app"
    /\ req' = Request("sync_google_sheets", 0)
    /\ resp' = app_jsonify(StatusBody("Data synced successfully"))
    /\ UNCHANGED <<variant, products, orders, fixtures>>

AppNext ==
    \/ app_get_stats
    \/ app_get_products
    \/ app_get_orders
    \/ \E i \in 1..Len(Payloads) : app_create_order(Payloads[i])
    \/ \E product_id \in 0..MaxProductId : app_delete_product(product_id)
    \/ app_sync_google_sheets

(***************************************************************************)
(* standalone_server.py                                                    *)
(* A request path "/a/b/c" is the sequence of its segments <<"a","b","c">>; *)
(* a trailing slash is an empty last segment.                              *)
(***************************************************************************)
\* path.startswith('/' + first + '/' + second + '/')
StartsWith2(path, first, second) ==
    Len(path) >= 3 /\ path[1] = first /\ path[2] = second

\* path.split('/')
Split(path) == <<"">> \o path

RECURSIVE RemoveApiPrefix(_, _)
\* path.replace('/admin/api/', '').replace('/', ''): every occurrence of the
\* prefix is removed left to right, then every remaining slash
RemoveApiPrefix(path, slashBefore) ==
    IF path = <<>> THEN ""
    ELSE IF slashBefore /\ Len(path) >= 3 /\ path[1] = "admin" /\ path[2] = "api"
         THEN RemoveApiPrefix(SubSeq(path, 3, Len(path)), FALSE)
         ELSE Head(path) \o RemoveApiPrefix(Tail(path), TRUE)

Endpoint(path) == RemoveApiPrefix(path, TRUE)

\* range of the integers whose literals the model parses
IntRange == 0..(MaxProductId + 1)

\* int(s): the value, or ValueError
PyInt(s) ==
    IF \E n \in IntRange : s = Decimal(n)
    THEN [ok |-> TRUE, v |-> CHOOSE n \in IntRange : s = Decimal(n)]
    ELSE IF \E n \in IntRange : s = "-" \o Decimal(n)
    THEN [ok |-> TRUE, v |-> 0 - (CHOOSE n \in IntRange : s = "-" \o Decimal(n))]
    ELSE [ok |-> FALSE, v |-> 0]

\* send_response(200) + the headers the handler sends + body
send_json(body) ==
    [status |-> 200, headers |-> {ContentJson, AllowOrigin}, body |-> body]

\* BaseHTTPRequestHandler.send_error(code, message)
send_error(code, message) ==
    [status |-> code,
     headers |-> {<<"Content-Type", "text/html;charset=utf-8">>,
                  <<"Connection", "close">>},
     body |-> [kind |-> "error", message |-> message]]

\* api_files
ApiFile(endpoint) ==
    CASE endpoint = "stats" -> "stats"
      [] endpoint = "products" -> "products"
      [] endpoint = "orders" -> "stats"
      [] OTHER -> "none"

handle_api_get(fx, path) ==
    LET endpoint == Endpoint(path)
        file == ApiFile(endpoint)
    IN  IF file # "none"
        THEN IF fx[file].exists
             THEN IF ~fx[file].valid
                  THEN send_error(500, "Server error")
                  ELSE IF endpoint = "orders"
                  THEN IF fx[file].json.isObject
                       THEN send_json([kind |-> "orders",
                              list |-> DictGet(fx[file].json, "recentOrders", <<>>)])
                       ELSE send_error(500, "Server error")
                  ELSE send_json([kind |-> "json", json |-> fx[file].json])
             ELSE send_error(404, "API endpoint not found")
        ELSE send_error(404, "API endpoint not found")

\* SimpleHTTPRequestHandler.do_GET for a path under the document root
serve_static(found) ==
    IF found
    THEN [status |-> 200, headers |-> {<<"Content-type", "file">>},
          body |-> [kind |-> "file"]]
    ELSE send_error(404, "File not found")

do_GET(path, found) ==
    /\ variant = "standalone"
    /\ req' = Request("GET", [path |-> path, contentLength |-> FALSE])
    /\ resp' = IF StartsWith2(path, "admin", "api")
               THEN handle_api_get(fixtures, path)
               ELSE serve_static(found)
    /\ UNCHANGED <<variant, products, orders, fixtures>>

handle_api_post(path, contentLength) ==
    IF ~contentLength
    THEN \* int(None) raises TypeError
         send_error(500, "Server error")
    ELSE IF path = <<"admin", "api", "orders">>
    THEN send_json(StatusBody("Order created"))
    ELSE IF path = <<"admin", "sync", "google-sheets">>
    THEN send_json(StatusBody("Data synced successfully"))
    ELSE send_error(404, "API endpoint not found")

do_POST_response(path, contentLength) ==
    IF StartsWith2(path, "admin", "api")
    THEN handle_api_post(path, contentLength)
    ELSE send_error(404, "Not found")

do_POST(path, contentLength) ==
    /\ variant = "standalone"
    /\ req' = Request("POST", [path |-> path, contentLength |-> contentLength])
    /\ resp' = do_POST_response(path, contentLength)
    /\ UNCHANGED <<variant, products, orders, fixtures>>

do_DELETE_response(path) ==
    IF StartsWith2(path, "admin", "products")
    THEN LET parts == Split(path)
         IN  IF Len(parts) >= 4
             THEN IF PyInt(parts[4]).ok
                  THEN send_json(StatusBody("Product deleted"))
                  ELSE send_error(400, "Invalid product ID")
             ELSE send_error(400, "Invalid request")
    ELSE send_error(404, "Not found")

do_DELETE(path) ==
    /\ variant = "standalone"
    /\ req' = Request("DELETE", [path |-> path, contentLength |-> FALSE])
    /\ resp' = do_DELETE_response(path)
    /\ UNCHANGED <<variant, products, orders, fixtures>>

\* variant of do_OPTIONS_response that sends the origin header alone
do_OPTIONS_response_origin_only(path) ==
    [status |-> 200, headers |-> {AllowOrigin}, body |-> [kind |-> "none"]]

do_OPTIONS_response(path) ==
    [status |-> 200, headers |-> {AllowOrigin, AllowMethods, AllowHeaders},
     body |-> [kind |-> "none"]]

do_OPTIONS(path) ==
    /\ variant = "standalone"
    /\ req' = Request("OPTIONS", [path |-> path, contentLength |-> FALSE])
    /\ resp' = do_OPTIONS_response(path)
    /\ UNCHANGED <<variant, products, orders, fixtures>>

\* the request paths the model sends
Paths ==
    { <<"admin", "api", "stats">>, <<"admin", "api", "products">>,
      <<"admin", "api", "orders">>, <<"admin", "api", "unknown">>,
      <<"admin", "api", "">>, <<"admin", "api", "products", "">>,
      <<"admin", "api", "admin", "api", "stats">>,
      <<"admin", "sync", "google-sheets">>,
      <<"admin", "products">>, <<"admin", "products", "">>,
      <<"admin", "products", "abc">>, <<"admin", "products", "-1">>,
      <<"admin", "products", "3", "edit">>,
      <<"index.html">>, <<"admin", "orders">> }
    \cup { <<"admin", "products", Decimal(n)>> : n \in 0..MaxProductId }

StandaloneNext ==
    \/ \E path \in Paths, found \in BOOLEAN : do_GET(path, found)
    \/ \E path \in Paths, contentLength \in BOOLEAN : do_POST(path, contentLength)
    \/ \E path \in Paths : do_DELETE(path)
    \/ \E path \in Paths : do_OPTIONS(path)

(***************************************************************************)
(* The process                                                             *)
(***************************************************************************)
Init ==
    /\ variant \in {"simple", "app", "standalone"}
    /\ products = IF variant = "simple" THEN generate_sample_products ELSE <<>>
    /\ orders = IF variant = "simple" THEN generate_sample_orders ELSE <<>>
    /\ \E i \in 1..Len(StatsFiles), j \in 1..Len(ProductsFiles) :
          fixtures = IF variant = "simple" THEN NoFixtures
                     ELSE [stats |-> StatsFiles[i], products |-> ProductsFiles[j]]
    /\ req = NoRequest
    /\ resp = NoResponse

Next == SimpleNext \/ AppNext \/ StandaloneNext

Spec == Init /\ [][Next]_vars

(***************************************************************************)
(* Properties                                                              *)
(***************************************************************************)
Ids(s) == {s[i].id : i \in 1..Len(s)}

UniqueIds(s) == \A i, j \in 1..Len(s) : i # j => s[i].id # s[j].id

\* what list_products() returns in the current state, per variant
ListProducts ==
    CASE variant = "simple" -> get_products(products).body.list
      [] variant = "app" ->
           LET r == app_load_response(fixtures, "products")
           IN  IF r.status = 200 /\ ~r.body.json.isObject
               THEN r.body.json.list ELSE <<>>
      [] OTHER ->
           LET r == handle_api_get(fixtures, <<"admin", "api", "products">>)
           IN  IF r.status = 200 /\ ~r.body.json.isObject
               THEN r.body.json.list ELSE <<>>

IsSuccess(r) == r.status = 200 /\ r.body.kind = "status" /\ r.body.status = "success"

\* C1: in the in-memory variant no two products share an id and no two
\* orders share an id, in every reachable state.
C1_UniqueIds ==
    variant = "simple" => UniqueIds(products) /\ UniqueIds(orders)

C1_Witness ==
    /\ variant = "simple"
    /\ Len(orders) >= 6
    /\ Len(products) <= 6

\* C2: in the in-memory variant a successful create_order leaves the new
\* order as the last element of what list_orders returns, with status
\* pending and an id greater than every id assigned before the call.
C2_CreateThenList ==
    [][(variant = "simple" /\ req'.op = "create_order" /\ resp'.status = 200)
        => LET listed == get_orders(orders').body.list
               new == listed[Len(listed)]
           IN  /\ Len(listed) = Len(orders) + 1
               /\ new = resp'.body.order
               /\ new.order_status = "pending"
               /\ \A i \in 1..Len(orders) : new.id > orders[i].id
               /\ \A i \in 1..Len(generate_sample_orders) :
                      new.id > generate_sample_orders[i].id]_vars

C2_Witness ==
    /\ variant = "simple"
    /\ req.op = "create_order"
    /\ resp.status = 200
    /\ Len(orders) = 6
    /\ orders[6] = resp.body.order

\* C3 (as stated): in every variant, delete_product(P) for a P in the
\* catalog removes exactly that entry, keeps the others in order, and a
\* following list_products() has no product with id P.
C3_Original ==
    [][(req'.op = "delete_product" /\ req'.arg \in Ids(ListProducts))
        => /\ Len(ListProducts') = Len(ListProducts) - 1
           /\ req'.arg \notin Ids(ListProducts')]_vars

\* C3 (amended): the same, in the in-memory variant simple_server.py only.
C3_DeleteRemovesOne ==
    [][(variant = "simple" /\ req'.op = "delete_product"
        /\ req'.arg \in Ids(products))
        => /\ Len(products') = Len(products) - 1
           /\ \E i \in 1..Len(products) :
                 /\ products[i].id = req'.arg
                 /\ products' = SubSeq(products, 1, i - 1)
                                \o SubSeq(products, i + 1, Len(products))
           /\ req'.arg \notin Ids(get_products(products').body.list)]_vars

C3_Witness ==
    /\ variant = "simple"
    /\ req.op = "delete_product"
    /\ req.arg = 3
    /\ Len(products) = 5
    /\ 3 \notin Ids(products)

\* the DELETE paths of the standard-library variant that carry an integer id
IntegerIdPaths == { <<"admin", "products", Decimal(n)>> : n \in 0..MaxProductId }

\* C4: delete_product with an integer id that matches no product leaves the
\* collection as it is and still reports success; after any delete the id is
\* absent, so a second delete of the same id changes nothing.
C4_DeleteMissing ==
    [][/\ (variant = "simple" /\ req'.op = "delete_product")
          => /\ IsSuccess(resp')
             /\ req'.arg \notin Ids(products) => products' = products
             /\ req'.arg \notin Ids(products')
       /\ (variant = "app" /\ req'.op = "delete_product"
           /\ req'.arg \notin Ids(ListProducts))
          => IsSuccess(resp') /\ ListProducts' = ListProducts
       /\ (variant = "standalone" /\ req'.op = "DELETE"
           /\ req'.arg.path \in IntegerIdPaths)
          => IsSuccess(resp') /\ ListProducts' = ListProducts]_vars

C4_Witness ==
    /\ variant = "simple"
    /\ req.op = "delete_product"
    /\ req.arg = 9
    /\ products = SubSeq(generate_sample_products, 2, 8)
    /\ IsSuccess(resp)

\* the orders whose status is pending, counted one by one
PendingCount(os) == Cardinality({i \in 1..Len(os) : os[i].order_status = "pending"})

RECURSIVE RevenueOf(_)
\* the sum of total_price over the orders that are not cancelled
RevenueOf(os) ==
    IF os = <<>> THEN 0
    ELSE (IF Head(os).order_status = "cancelled" THEN 0 ELSE Head(os).total_price.n)
         + RevenueOf(Tail(os))

\* C5: in every reachable state of the in-memory variant get_stats() returns
\* totalProducts = number of products listed, totalOrders = number of orders,
\* pendingOrders = number of pending orders (8, 4 and 1 for the seed catalog).
C5_StatsCounts ==
    variant = "simple"
    => LET r == get_stats(products, orders)
       IN  /\ r.status = 200
           /\ r.body.totalProducts = Len(get_products(products).body.list)
           /\ r.body.totalOrders = Len(get_orders(orders).body.list)
           /\ r.body.pendingOrders = PendingCount(orders)
           /\ (products = generate_sample_products /\ orders = generate_sample_orders)
              => /\ r.body.totalProducts = 8
                 /\ r.body.totalOrders = 4
                 /\ r.body.pendingOrders = 1

\* C6: in every reachable state of the in-memory variant
\* get_stats().totalRevenue is the sum of total_price over the orders that
\* are not cancelled, the totals given to create_order included.
C6_StatsRevenue ==
    variant = "simple"
    => LET r == get_stats(products, orders)
       IN  r.status = 200 /\ r.body.totalRevenue = RevenueOf(orders)

\* a request on an API path of the standard-library variant
IsApiRequest(r) ==
    \/ r.op \in {"GET", "POST"} /\ StartsWith2(r.arg.path, "admin", "api")
    \/ r.op = "DELETE" /\ StartsWith2(r.arg.path, "admin", "products")

\* C7: in the standard-library variant every response to a request on an API
\* path, success or error, carries Access-Control-Allow-Origin: *.
C7_CorsOnEveryApiResponse ==
    (variant = "standalone" /\ req.op # "none" /\ IsApiRequest(req))
    => AllowOrigin \in resp.headers

IsSyncRequest(r) ==
    \/ variant \in {"simple", "app"} /\ r.op = "sync_google_sheets"
    \/ variant = "standalone" /\ r.op = "POST"
       /\ r.arg.path = <<"admin", "sync", "google-sheets">>

\* C8: POST /admin/sync/google-sheets is answered with a success result and
\* status 200 for every body and in every state, in each variant.
C8_SyncAlwaysSucceeds ==
    IsSyncRequest(req) => IsSuccess(resp)

\* C9: an OPTIONS request to a path under /admin/api/ gets status 200 with
\* the three Access-Control-Allow-* headers, no body from a business handler,
\* and leaves the collections and the fixtures as they are.
C9_Preflight ==
    [][(req'.op = "OPTIONS" /\ StartsWith2(req'.arg.path, "admin", "api"))
        => /\ resp'.status = 200
           /\ {AllowOrigin, AllowMethods, AllowHeaders} \subseteq resp'.headers
           /\ resp'.body.kind = "none"
           /\ UNCHANGED <<products, orders, fixtures>>]_vars

C9_Witness ==
    /\ variant = "standalone"
    /\ req.op = "OPTIONS"
    /\ req.arg.path = <<"admin", "api", "products">>
    /\ fixtures.products.valid
    /\ resp.status = 200

\* C10: in the in-memory variant every step leaves the order collection as it
\* is or appends exactly one order with status pending; no order is removed
\* or changed, and delete_product leaves the orders alone.
C10_OrdersAppendOnly ==
    [][variant = "simple"
        => /\ \/ orders' = orders
              \/ /\ Len(orders') = Len(orders) + 1
                 /\ SubSeq(orders', 1, Len(orders)) = orders
                 /\ orders'[Len(orders')].order_status = "pending"
                 /\ req'.op = "create_order"
           /\ req'.op = "delete_product" => orders' = orders]_vars

C10_Witness ==
    /\ variant = "simple"
    /\ req.op = "delete_product"
    /\ req.arg \in 1..4
    /\ Len(orders) = 6
    /\ SubSeq(orders, 1, 4) = generate_sample_orders

====
